---- MODULE Spec2Model ----
(***************************************************************************)
(* Model of packages/definitions-parser/src/git.ts: the change classifier  *)
(* gitChanges, the orchestrator getAffectedPackagesFromDiff and the        *)
(* deprecation validators getNotNeededPackages / checkNotNeededPackage.    *)
(*                                                                         *)
(* A file path is a sequence of its "/"-separated segments.  A typing      *)
(* version is <<>> for "*", <<major>> or <<major, minor>>.  An optional    *)
(* value (T | undefined) is a sequence of length 0 or 1.  A JavaScript Map *)
(* is the sequence of its entries in insertion order.                      *)
(***************************************************************************)
EXTENDS Integers, Sequences, FiniteSets, TLC

\* ------------------------------------------------------------------ bounds
MaxDiffs == 2
MaxDeletions == 3

\* ---------------------------------------------------------------- alphabet
typesDirectoryName == "types"
manifestFile == <<"notNeededPackages.json">>

Paths ==
  { <<"types", "foo", "index.d.ts">>,
    <<"types", "foo", "v2", "index.d.ts">>,
    <<"types", "README.md">>,
    <<"other", "unrelated.txt">>,
    manifestFile }

Versions == { <<1, 9, 9>>, <<2, 0, 0>>, <<2, 1, 0>> }

\* GitDiff: { status: "A" | "D" | "M"; file } | { status: "R"; file; source }
GitDiff ==
  [status : {"A", "D", "M"}, file : Paths]
    \cup [status : {"R"}, file : Paths, source : Paths]

RECURSIVE SeqsUpTo(_, _)
SeqsUpTo(S, n) ==
  IF n = 0 THEN { <<>> }
  ELSE LET shorter == SeqsUpTo(S, n - 1)
       IN  shorter \cup { Append(s, e) : s \in { t \in shorter : Len(t) = n - 1 }, e \in S }

\* gitDiff maps every line of a non-empty "--name-status" listing to one
\* entry; an empty listing makes file.trim() throw, so a returned list
\* always has at least one entry.
DiffSeqs == { s \in SeqsUpTo(GitDiff, MaxDiffs) : Len(s) >= 1 }

\* ------------------------------------------------------- path and identity
RECURSIVE Join(_)
Join(file) ==
  IF Len(file) = 0 THEN ""
  ELSE IF Len(file) = 1 THEN file[1]
  ELSE file[1] \o "/" \o Join(Tail(file))

\* /types[\\/]/.test(file): some segment that is followed by a separator
\* ends in "types".
EndsInTypes(segment) == segment \in {"types"}

TypesPattern(file) == \E k \in 1 .. (Len(file) - 1) : EndsInTypes(file[k])

\* v<major>[.<minor>] directory names
parseVersionFromDirectoryName(segment) ==
  IF segment = "v2" THEN << <<2>> >> ELSE <<>>

formatTypingVersion(version) ==
  IF Len(version) = 1 THEN ToString(version[1])
  ELSE ToString(version[1]) \o "." \o ToString(version[2])

\* <root>/<directoryName>[/v<major>.<minor>]/...
getDependencyFromFile(file) ==
  IF Len(file) <= 2 THEN <<>>
  ELSE IF file[1] # typesDirectoryName THEN <<>>
  ELSE LET parsed == parseVersionFromDirectoryName(file[3])
       IN  IF parsed # <<>>
           THEN << [typesDirectoryName |-> file[2], version |-> parsed[1]] >>
           ELSE << [typesDirectoryName |-> file[2], version |-> <<>>] >>

KeyOf(dep) ==
  dep.typesDirectoryName \o "/v"
    \o (IF dep.version = <<>> THEN "*" ELSE formatTypingVersion(dep.version))

\* ------------------------------------------------------------ Map<string,_>
MapKeys(m) == { m[k].key : k \in 1 .. Len(m) }

MapValues(m) == [k \in 1 .. Len(m) |-> m[k].value]

MapSet(m, key, value) ==
  IF key \in MapKeys(m)
  THEN [k \in 1 .. Len(m) |-> IF m[k].key = key THEN [key |-> key, value |-> value] ELSE m[k]]
  ELSE Append(m, [key |-> key, value |-> value])

\* --------------------------------------------------------------- gitChanges
UnexpectedFile(diff) ==
  [kind |-> IF diff.status = "A" \/ diff.status = "R" THEN "added" ELSE "deleted",
   subject |-> Join(diff.file)]

EmptyChanges == [deletions |-> <<>>, additions |-> <<>>, errors |-> <<>>]

\* Variant: the source of a move is not recorded.
SetSourceSkipped(st, diff) == st

\* Variant: a source that is not a package file is reported as deleted.
SetSourceStrict(st, diff) ==
  LET srcDep == getDependencyFromFile(diff.source)
  IN  IF srcDep # <<>>
      THEN [st EXCEPT !.deletions = MapSet(@, KeyOf(srcDep[1]), srcDep[1])]
      ELSE [st EXCEPT !.errors = Append(@, [kind |-> "deleted", subject |-> Join(diff.source)])]

SetSource(st, diff) ==
  LET srcDep == getDependencyFromFile(diff.source)
  IN  IF srcDep # <<>>
      THEN [st EXCEPT !.deletions = MapSet(@, KeyOf(srcDep[1]), srcDep[1])]
      ELSE st

MapDelete(m, key) == SelectSeq(m, LAMBDA e : e.key # key)

\* Variant: the test for a types/ directory is missing.
ProcessDiffUnfiltered(st, diff) ==
  IF diff.status = "M" THEN st
  ELSE LET dep == getDependencyFromFile(diff.file)
       IN  IF dep # <<>>
           THEN LET key == KeyOf(dep[1])
                    set == IF diff.status = "D"
                           THEN [st EXCEPT !.deletions = MapSet(@, key, dep[1])]
                           ELSE [st EXCEPT !.additions = MapSet(@, key, dep[1])]
                IN  IF diff.status = "R" THEN SetSource(set, diff) ELSE set
           ELSE [st EXCEPT !.errors = Append(@, UnexpectedFile(diff))]

\* Variant: setting a key in one map deletes it from the other.
ProcessDiffExclusive(st, diff) ==
  IF ~TypesPattern(diff.file) THEN st
  ELSE IF diff.status = "M" THEN st
  ELSE LET dep == getDependencyFromFile(diff.file)
       IN  IF dep # <<>>
           THEN LET key == KeyOf(dep[1])
                    set == IF diff.status = "D"
                           THEN [st EXCEPT !.deletions = MapSet(@, key, dep[1]),
                                           !.additions = MapDelete(@, key)]
                           ELSE [st EXCEPT !.additions = MapSet(@, key, dep[1]),
                                           !.deletions = MapDelete(@, key)]
                IN  IF diff.status = "R" THEN SetSource(set, diff) ELSE set
           ELSE [st EXCEPT !.errors = Append(@, UnexpectedFile(diff))]

\* one iteration of the loop over diffs
ProcessDiff(st, diff) ==
  IF ~TypesPattern(diff.file) THEN st
  ELSE IF diff.status = "M" THEN st
  ELSE LET dep == getDependencyFromFile(diff.file)
       IN  IF dep # <<>>
           THEN LET key == KeyOf(dep[1])
                    set == IF diff.status = "D"
                           THEN [st EXCEPT !.deletions = MapSet(@, key, dep[1])]
                           ELSE [st EXCEPT !.additions = MapSet(@, key, dep[1])]
                IN  IF diff.status = "R" THEN SetSource(set, diff) ELSE set
           ELSE [st EXCEPT !.errors = Append(@, UnexpectedFile(diff))]

GitChangesResult(st) ==
  IF Len(st.errors) > 0
  THEN [errors |-> st.errors]
  ELSE [deletions |-> MapValues(st.deletions), additions |-> MapValues(st.additions)]

RECURSIVE ProcessAll(_, _)
ProcessAll(st, ds) ==
  IF ds = <<>> THEN st ELSE ProcessAll(ProcessDiff(st, Head(ds)), Tail(ds))

gitChanges(ds) == GitChangesResult(ProcessAll(EmptyChanges, ds))

\* ------------------------------------------------------ deprecation checks
\* NotNeededPackage: { name, libraryName, version }
NotNeededPackage(p, version) ==
  [name |-> "@types/" \o p, libraryName |-> p, version |-> version]

\* The package index as getNotNeededPackages consults it: which of the
\* consulted directories still have typings, and which have an entry in
\* notNeededPackages.json.
AllPackages(consulted) ==
  { [typings |-> t, notNeeded |-> n] :
      t \in SUBSET consulted, n \in UNION { [d -> Versions] : d \in SUBSET consulted } }

Unconsulted == [typings |-> {}, notNeeded |-> <<>>]

hasTypingFor(allPackages, p) == p \in allPackages.typings

getNotNeededPackage(allPackages, p) ==
  IF p \in DOMAIN allPackages.notNeeded
  THEN << NotNeededPackage(p, allPackages.notNeeded[p]) >>
  ELSE <<>>

Range(seq) == { seq[k] : k \in 1 .. Len(seq) }

\* Variant: the directory names are not deduplicated.
RECURSIVE DirectoryList(_, _)
DirectoryList(seen, ids) ==
  IF ids = <<>> THEN seen
  ELSE DirectoryList(Append(seen, Head(ids).typesDirectoryName), Tail(ids))

\* new Set(deletions.map(p => p.typesDirectoryName)), in insertion order
RECURSIVE DirectorySet(_, _)
DirectorySet(seen, ids) ==
  IF ids = <<>> THEN seen
  ELSE LET p == Head(ids).typesDirectoryName
       IN  IF \E k \in 1 .. Len(seen) : seen[k] = p
           THEN DirectorySet(seen, Tail(ids))
           ELSE DirectorySet(Append(seen, p), Tail(ids))

RECURSIVE NotNeededLoop(_, _, _)
NotNeededLoop(allPackages, acc, ps) ==
  IF ps = <<>> THEN acc
  ELSE LET p == Head(ps)
           hasTyping == hasTypingFor(allPackages, p)
           notNeeded == getNotNeededPackage(allPackages, p)
           next == IF hasTyping /\ notNeeded # <<>>
                   THEN [acc EXCEPT !.errors =
                           Append(@, [kind |-> "deleteAllFiles", subject |-> p])]
                   ELSE IF notNeeded # <<>>
                   THEN [acc EXCEPT !.notNeededs = Append(@, notNeeded[1])]
                   ELSE acc
       IN  NotNeededLoop(allPackages, next, Tail(ps))

getNotNeededPackages(allPackages, ids) ==
  LET deletedPackages == DirectorySet(<<>>, ids)
      acc == NotNeededLoop(allPackages, [errors |-> <<>>, notNeededs |-> <<>>], deletedPackages)
  IN  IF Len(acc.errors) > 0 THEN [errors |-> acc.errors] ELSE [notNeededs |-> acc.notNeededs]

\* semver.gt on major.minor.patch versions
SemverGt(a, b) ==
  \/ a[1] > b[1]
  \/ a[1] = b[1] /\ a[2] > b[2]
  \/ a[1] = b[1] /\ a[2] = b[2] /\ a[3] > b[3]

FormatSemver(v) == ToString(v[1]) \o "." \o ToString(v[2]) \o "." \o ToString(v[3])

\* What a pacote.manifest call can do: resolve, or reject with a code.
ReplacementReplies == {"ok", "E404", "ETARGET", "EOTHER"}

TypingsReplies ==
  [code : {"ok"}, version : Versions]
    \cup [code : {"E404", "ETARGET", "EOTHER"}, version : { <<0, 0, 0>> }]

\* Variant: a version equal to the latest published one is accepted.
checkNotNeededPackageGte(unneeded, replacement, typings) ==
  LET first == IF replacement = "E404"
               THEN << [kind |-> "noSuchLibrary", subject |-> unneeded.libraryName] >>
               ELSE IF replacement = "ETARGET"
               THEN << [kind |-> "versionNotOnNpm",
                        subject |-> unneeded.libraryName \o "@" \o FormatSemver(unneeded.version)] >>
               ELSE <<>>
  IN  IF replacement \notin {"ok", "E404", "ETARGET"}
      THEN [threw |-> TRUE, errors |-> <<>>, lookups |-> 1]
      ELSE IF typings.code \notin {"ok", "E404"}
      THEN [threw |-> TRUE, errors |-> <<>>, lookups |-> 2]
      ELSE IF typings.code = "E404"
      THEN [threw |-> FALSE, lookups |-> 2,
            errors |-> Append(first, [kind |-> "typesNotFound", subject |-> unneeded.name])]
      ELSE IF SemverGt(typings.version, unneeded.version)
      THEN [threw |-> FALSE, lookups |-> 2,
            errors |-> Append(first,
              [kind |-> "mustBeNewer",
               subject |-> FormatSemver(unneeded.version) \o " " \o FormatSemver(typings.version)])]
      ELSE [threw |-> FALSE, lookups |-> 2, errors |-> first]

\* Variant: every rejection of a lookup becomes an error entry.
checkNotNeededPackageSwallow(unneeded, replacement, typings) ==
  LET first == IF replacement = "ok" THEN <<>>
               ELSE << [kind |-> "noSuchLibrary", subject |-> unneeded.libraryName] >>
  IN  IF typings.code # "ok"
      THEN [threw |-> FALSE, lookups |-> 2,
            errors |-> Append(first, [kind |-> "typesNotFound", subject |-> unneeded.name])]
      ELSE IF ~SemverGt(unneeded.version, typings.version)
      THEN [threw |-> FALSE, lookups |-> 2,
            errors |-> Append(first,
              [kind |-> "mustBeNewer",
               subject |-> FormatSemver(unneeded.version) \o " " \o FormatSemver(typings.version)])]
      ELSE [threw |-> FALSE, lookups |-> 2, errors |-> first]

\* checkNotNeededPackage with the replies of its two registry lookups;
\* threw = the returned promise rejects.
checkNotNeededPackage(unneeded, replacement, typings) ==
  LET first == IF replacement = "E404"
               THEN << [kind |-> "noSuchLibrary", subject |-> unneeded.libraryName] >>
               ELSE IF replacement = "ETARGET"
               THEN << [kind |-> "versionNotOnNpm",
                        subject |-> unneeded.libraryName \o "@" \o FormatSemver(unneeded.version)] >>
               ELSE <<>>
  IN  IF replacement \notin {"ok", "E404", "ETARGET"}
      THEN [threw |-> TRUE, errors |-> <<>>, lookups |-> 1]
      ELSE IF typings.code \notin {"ok", "E404"}
      THEN [threw |-> TRUE, errors |-> <<>>, lookups |-> 2]
      ELSE IF typings.code = "E404"
      THEN [threw |-> FALSE, lookups |-> 2,
            errors |-> Append(first, [kind |-> "typesNotFound", subject |-> unneeded.name])]
      ELSE IF ~SemverGt(unneeded.version, typings.version)
      THEN [threw |-> FALSE, lookups |-> 2,
            errors |-> Append(first,
              [kind |-> "mustBeNewer",
               subject |-> FormatSemver(unneeded.version) \o " " \o FormatSemver(typings.version)])]
      ELSE [threw |-> FALSE, lookups |-> 2, errors |-> first]

\* -------------------------------------------------------------------- state
VARIABLES
  pc,          \* position in getAffectedPackagesFromDiff
  diffs,       \* what gitDiff returned
  i,           \* index of the next diff in gitChanges's loop
  gc,          \* gitChanges's locals: the deletions and additions maps, errors
  git,         \* gitChanges's result
  errors,      \* getAffectedPackagesFromDiff's errors
  allPackages, \* the index as consulted by getNotNeededPackages
  deleteds,    \* getNotNeededPackages's result
  j,           \* index of the next record in the loop over deleteds
  lastCheck,   \* the latest checkNotNeededPackage call and what it did
  calls,       \* the functions invoked in this run
  lookups,     \* number of registry lookups made in this run
  outcome      \* how the run ended

vars == <<pc, diffs, i, gc, git, errors, allPackages, deleteds, j, lastCheck, calls, lookups, outcome>>

Pending == [kind |-> "pending"]
NoCheck == [made |-> FALSE]

Init ==
  /\ pc = "gitDiff"
  /\ diffs = <<>>
  /\ i = 1
  /\ gc = EmptyChanges
  /\ git = [unset |-> TRUE]
  /\ errors = <<>>
  /\ allPackages = Unconsulted
  /\ deleteds = [unset |-> TRUE]
  /\ j = 1
  /\ lastCheck = NoCheck
  /\ calls = {}
  /\ lookups = 0
  /\ outcome = Pending

ManifestChanged(ds) == \E k \in 1 .. Len(ds) : ds[k].file = manifestFile

\* const diffs = await gitDiff(...)
GitDiffReturns ==
  /\ pc = "gitDiff"
  /\ \E ds \in DiffSeqs : diffs' = ds
  /\ pc' = "gitChanges"
  /\ calls' = calls \cup {"gitDiff", "gitChanges"}
  /\ UNCHANGED <<i, gc, git, errors, allPackages, deleteds, j, lastCheck, lookups, outcome>>

\* a git command fails, or the listing is empty: the run rejects
GitDiffThrows ==
  /\ pc = "gitDiff"
  /\ pc' = "done"
  /\ calls' = calls \cup {"gitDiff"}
  /\ outcome' = [kind |-> "thrown"]
  /\ UNCHANGED <<diffs, i, gc, git, errors, allPackages, deleteds, j, lastCheck, lookups>>

\* for (const diff of diffs) { ... }
GitChangesLoop ==
  /\ pc = "gitChanges"
  /\ i <= Len(diffs)
  /\ gc' = ProcessDiff(gc, diffs[i])
  /\ i' = i + 1
  /\ UNCHANGED <<pc, diffs, git, errors, allPackages, deleteds, j, lastCheck, calls, lookups, outcome>>

\* Variant: the run goes on after gitChanges returned errors.
GitChangesReturnsGoesOn ==
  /\ pc = "gitChanges"
  /\ i > Len(diffs)
  /\ git' = GitChangesResult(gc)
  /\ pc' = "getAffectedPackages"
  /\ UNCHANGED <<diffs, i, gc, errors, allPackages, deleteds, j, lastCheck, calls, lookups, outcome>>

\* gitChanges returns; if ("errors" in git) return git.errors
GitChangesReturns ==
  /\ pc = "gitChanges"
  /\ i > Len(diffs)
  /\ git' = GitChangesResult(gc)
  /\ IF "errors" \in DOMAIN git'
     THEN /\ outcome' = [kind |-> "errors", errors |-> git'.errors]
          /\ pc' = "done"
     ELSE /\ outcome' = outcome
          /\ pc' = "manifest"
  /\ UNCHANGED <<diffs, i, gc, errors, allPackages, deleteds, j, lastCheck, calls, lookups>>

\* diffs.find(d => d.file === "notNeededPackages.json") finds nothing
ManifestUnchanged ==
  /\ pc = "manifest"
  /\ ~ManifestChanged(diffs)
  /\ pc' = "getAffectedPackages"
  /\ UNCHANGED <<diffs, i, gc, git, errors, allPackages, deleteds, j, lastCheck, calls, lookups, outcome>>

\* Variant: the deprecation checks run whether or not the manifest changed.
GetNotNeededPackagesAlways ==
  /\ pc = "manifest"
  /\ \E ap \in AllPackages(Range(DirectorySet(<<>>, git.deletions))) :
       /\ allPackages' = ap
       /\ deleteds' = getNotNeededPackages(ap, git.deletions)
  /\ calls' = calls \cup {"getNotNeededPackages"}
  /\ j' = 1
  /\ IF "errors" \in DOMAIN deleteds'
     THEN /\ errors' = errors \o deleteds'.errors
          /\ pc' = "getAffectedPackages"
     ELSE /\ errors' = errors
          /\ pc' = IF Len(deleteds'.notNeededs) = 0 THEN "getAffectedPackages" ELSE "checkNotNeededPackage"
  /\ UNCHANGED <<diffs, i, gc, git, lastCheck, lookups, outcome>>

\* const deleteds = await getNotNeededPackages(allPackages, git.deletions)
GetNotNeededPackages ==
  /\ pc = "manifest"
  /\ ManifestChanged(diffs)
  /\ \E ap \in AllPackages(Range(DirectorySet(<<>>, git.deletions))) :
       /\ allPackages' = ap
       /\ deleteds' = getNotNeededPackages(ap, git.deletions)
  /\ calls' = calls \cup {"getNotNeededPackages"}
  /\ j' = 1
  /\ IF "errors" \in DOMAIN deleteds'
     THEN /\ errors' = errors \o deleteds'.errors
          /\ pc' = "getAffectedPackages"
     ELSE /\ errors' = errors
          /\ pc' = IF Len(deleteds'.notNeededs) = 0 THEN "getAffectedPackages" ELSE "checkNotNeededPackage"
  /\ UNCHANGED <<diffs, i, gc, git, lastCheck, lookups, outcome>>

\* errors.push(...(await checkNotNeededPackage(deleted)))
CheckNotNeededPackage ==
  /\ pc = "checkNotNeededPackage"
  /\ j <= Len(deleteds.notNeededs)
  /\ \E replacement \in ReplacementReplies, typings \in TypingsReplies :
       LET unneeded == deleteds.notNeededs[j]
           res == checkNotNeededPackage(unneeded, replacement, typings)
       IN  /\ lastCheck' = [made |-> TRUE, unneeded |-> unneeded, replacement |-> replacement,
                            typings |-> IF res.lookups = 2 THEN typings
                                        ELSE [code |-> "none", version |-> <<0, 0, 0>>],
                            result |-> res]
           /\ lookups' = lookups + res.lookups
           /\ IF res.threw
              THEN /\ outcome' = [kind |-> "thrown"]
                   /\ pc' = "done"
                   /\ UNCHANGED <<errors, j>>
              ELSE /\ errors' = errors \o res.errors
                   /\ j' = j + 1
                   /\ pc' = IF j' > Len(deleteds.notNeededs)
                            THEN "getAffectedPackages" ELSE "checkNotNeededPackage"
                   /\ outcome' = outcome
  /\ calls' = calls \cup {"checkNotNeededPackage"}
  /\ UNCHANGED <<diffs, i, gc, git, allPackages, deleteds>>

\* What the awaited getAffectedPackages call can do.
AffectedReplies == {"affected", "errors", "throws"}

\* Variant: errors are returned before getAffectedPackages is called.
GetAffectedPackagesAfterErrors ==
  /\ pc = "getAffectedPackages"
  /\ pc' = "done"
  /\ IF Len(errors) > 0
     THEN /\ calls' = calls
          /\ outcome' = [kind |-> "errors", errors |-> errors]
     ELSE /\ calls' = calls \cup {"getAffectedPackages"}
          /\ \E affected \in {"affected", "errors", "throws"} :
               outcome' = IF affected = "affected" THEN [kind |-> "affected"] ELSE [kind |-> "thrown"]
  /\ UNCHANGED <<diffs, i, gc, git, errors, allPackages, deleteds, j, lastCheck, lookups>>

\* const affected = await getAffectedPackages(...); if (errors.length) return errors; ...
GetAffectedPackages ==
  /\ pc = "getAffectedPackages"
  /\ calls' = calls \cup {"getAffectedPackages"}
  /\ pc' = "done"
  /\ \E affected \in AffectedReplies :
       outcome' = IF affected = "throws" THEN [kind |-> "thrown"]
                  ELSE IF Len(errors) > 0 THEN [kind |-> "errors", errors |-> errors]
                  ELSE IF affected = "errors" THEN [kind |-> "thrown"]
                  ELSE [kind |-> "affected"]
  /\ UNCHANGED <<diffs, i, gc, git, errors, allPackages, deleteds, j, lastCheck, lookups>>

Next ==
  \/ GitDiffReturns
  \/ GitDiffThrows
  \/ GitChangesLoop
  \/ GitChangesReturns
  \/ ManifestUnchanged
  \/ GetNotNeededPackages
  \/ CheckNotNeededPackage
  \/ GetAffectedPackages

Spec == Init /\ [][Next]_vars

\* ----------------------------------------- the deprecation checks on their own
\* Runs that have reached the manifest test with only deletions of package
\* files and a modified notNeededPackages.json in the diff.
DeletedPaths ==
  { <<"types", "foo", "index.d.ts">>,
    <<"types", "foo", "v2", "index.d.ts">>,
    <<"types", "bar", "index.d.ts">> }

DeprecationDiffs ==
  { Append(s, [status |-> "M", file |-> manifestFile]) :
      s \in { t \in SeqsUpTo([status : {"D"}, file : DeletedPaths], MaxDeletions) : Len(t) >= 1 } }

InitDeprecation ==
  /\ pc = "manifest"
  /\ diffs \in DeprecationDiffs
  /\ i = Len(diffs) + 1
  /\ gc = ProcessAll(EmptyChanges, diffs)
  /\ git = gitChanges(diffs)
  /\ errors = <<>>
  /\ allPackages = Unconsulted
  /\ deleteds = [unset |-> TRUE]
  /\ j = 1
  /\ lastCheck = NoCheck
  /\ calls = {"gitDiff", "gitChanges"}
  /\ lookups = 0
  /\ outcome = Pending

NextDeprecation ==
  \/ GetNotNeededPackages
  \/ CheckNotNeededPackage
  \/ GetAffectedPackages

SpecDeprecation == InitDeprecation /\ [][NextDeprecation]_vars

\* ------------------------------------------------------------------ claims
Mapped(file) == getDependencyFromFile(file) # <<>>

Processed == SubSeq(diffs, 1, i - 1)

GitSet == "unset" \notin DOMAIN git

GitIsErrors == GitSet /\ "errors" \in DOMAIN git

\* An event gitChanges rejects: an add, delete or rename whose file is under
\* a types/ directory and is not a package file.
Rejected(diff) ==
  /\ diff.status \in {"A", "D", "R"}
  /\ TypesPattern(diff.file)
  /\ ~Mapped(diff.file)

RejectedIn(ds) == { k \in 1 .. Len(ds) : Rejected(ds[k]) }

UnmappedIn(ds) == { k \in 1 .. Len(ds) : ~Mapped(ds[k].file) }

\* C1 as stated: every event whose path does not match the package path
\* grammar, whatever its status and wherever it lies, contributes exactly
\* one structural error, and the result is then error-only.
C1_EveryUnmappedEventIsAnError ==
  GitSet =>
    /\ Len(gc.errors) = Cardinality(UnmappedIn(diffs))
    /\ (UnmappedIn(diffs) # {} => DOMAIN git = {"errors"})

\* C1 amended: exactly the A, D and R events whose file contains "types/"
\* and does not match the grammar contribute one structural error each, in
\* diff order; M events and events outside types/ contribute none; and the
\* result is error-only exactly when at least one error was produced.
C1_RejectedEventsAreTheErrors ==
  /\ Len(gc.errors) = Cardinality(RejectedIn(Processed))
  /\ \A k \in RejectedIn(Processed) :
       gc.errors[Cardinality({ m \in RejectedIn(Processed) : m <= k })] = UnexpectedFile(diffs[k])
  /\ GitSet =>
       IF RejectedIn(diffs) # {}
       THEN DOMAIN git = {"errors"} /\ git.errors = gc.errors
       ELSE DOMAIN git = {"deletions", "additions"}

C1_Witness ==
  /\ GitIsErrors
  /\ Len(git.errors) = 1
  /\ \E k \in 1 .. Len(diffs) :
       diffs[k].status = "A" /\ diffs[k].file = <<"other", "unrelated.txt">>
  /\ \E k \in 1 .. Len(diffs) :
       diffs[k].status = "D" /\ diffs[k].file = <<"types", "README.md">>

\* The keys the processed events delete and add.
DeletedKeys(ds) ==
  { KeyOf(getDependencyFromFile(ds[k].file)[1]) :
      k \in { m \in 1 .. Len(ds) :
                ds[m].status = "D" /\ TypesPattern(ds[m].file) /\ Mapped(ds[m].file) } }
  \cup
  { KeyOf(getDependencyFromFile(ds[k].source)[1]) :
      k \in { m \in 1 .. Len(ds) :
                /\ ds[m].status = "R"
                /\ TypesPattern(ds[m].file) /\ Mapped(ds[m].file)
                /\ Mapped(ds[m].source) } }

AddedKeys(ds) ==
  { KeyOf(getDependencyFromFile(ds[k].file)[1]) :
      k \in { m \in 1 .. Len(ds) :
                ds[m].status \in {"A", "R"} /\ TypesPattern(ds[m].file) /\ Mapped(ds[m].file) } }

\* C2 as stated: after any prefix of the diffs, no key is in both the
\* deletions map and the additions map.
C2_NoKeyInBothMaps ==
  MapKeys(gc.deletions) \cap MapKeys(gc.additions) = {}

\* C2 amended: after any prefix, each map holds a key at most once; a key is
\* in the deletions map iff a processed event deleted it and in the
\* additions map iff a processed event added it, so a key both added and
\* deleted is in both maps.
C2_MapsAreIndependent ==
  /\ MapKeys(gc.deletions) = DeletedKeys(Processed)
  /\ MapKeys(gc.additions) = AddedKeys(Processed)
  /\ Len(gc.deletions) = Cardinality(MapKeys(gc.deletions))
  /\ Len(gc.additions) = Cardinality(MapKeys(gc.additions))
  /\ \A k \in 1 .. Len(gc.deletions) : KeyOf(gc.deletions[k].value) = gc.deletions[k].key
  /\ \A k \in 1 .. Len(gc.additions) : KeyOf(gc.additions[k].value) = gc.additions[k].key

C2_Witness ==
  /\ i = 3
  /\ diffs[1].status = "A"
  /\ diffs[2].status = "D"
  /\ "foo/v2" \in MapKeys(gc.deletions) \cap MapKeys(gc.additions)

\* diffs with the rename at position k replaced by a delete of its source
\* followed by an add of its file
SplitRename(ds, k) ==
  SubSeq(ds, 1, k - 1)
    \o << [status |-> "D", file |-> ds[k].source], [status |-> "A", file |-> ds[k].file] >>
    \o SubSeq(ds, k + 1, Len(ds))

MappedRename(diff) == diff.status = "R" /\ Mapped(diff.source) /\ Mapped(diff.file)

\* C3: classifying a rename whose two paths both map to a package identity
\* yields the same deletions and additions as classifying a delete of its
\* source followed by an add of its file (alone, or among other events).
C3_RenameIsDeleteThenAdd ==
  GitSet =>
    \A k \in 1 .. Len(diffs) :
      MappedRename(diffs[k]) => git = gitChanges(SplitRename(diffs, k))

C3_Witness ==
  /\ GitSet
  /\ diffs = << [status |-> "R", source |-> <<"types", "foo", "index.d.ts">>,
                 file |-> <<"types", "foo", "v2", "index.d.ts">>] >>
  /\ git = [deletions |-> << [typesDirectoryName |-> "foo", version |-> <<>>] >>,
            additions |-> << [typesDirectoryName |-> "foo", version |-> <<2>>] >>]

Downstream == {"getNotNeededPackages", "checkNotNeededPackage", "getAffectedPackages"}

\* C4: when gitChanges returns errors the run returns exactly those errors
\* and invokes none of getNotNeededPackages, checkNotNeededPackage and
\* getAffectedPackages.
C4_ClassifierErrorsEndTheRun ==
  GitIsErrors =>
    /\ pc = "done"
    /\ outcome = [kind |-> "errors", errors |-> git.errors]
    /\ calls \cap Downstream = {}
    /\ lookups = 0

C4_Witness ==
  /\ GitIsErrors
  /\ pc = "done"
  /\ ManifestChanged(diffs)
  /\ Len(outcome.errors) = 1

\* C5 as stated: once the deprecation checks have collected an error,
\* getAffectedPackages is never invoked in that run.
C5_ResolverSkippedOnErrors ==
  Len(errors) > 0 => "getAffectedPackages" \notin calls

LastCheckThrew == lastCheck.made /\ lastCheck.result.threw

\* C5 amended: once the deprecation checks have collected an error, the run
\* never returns an AffectedResult; getAffectedPackages is still invoked
\* (unless a later registry lookup rejects first), its output is discarded,
\* and if it returns the run returns exactly the collected errors.
C5_ResolverRunsAndIsDiscarded ==
  (pc = "done" /\ Len(errors) > 0) =>
    /\ outcome.kind \in {"errors", "thrown"}
    /\ outcome.kind = "errors" => outcome.errors = errors
    /\ "getAffectedPackages" \notin calls => LastCheckThrew
    /\ "getAffectedPackages" \in calls => ~LastCheckThrew

C5_Witness ==
  /\ pc = "done"
  /\ Len(errors) > 0
  /\ "getAffectedPackages" \in calls
  /\ outcome = [kind |-> "errors", errors |-> errors]

\* major.minor.patch as one number, for versions with parts below 100
VersionNumber(v) == v[1] * 10000 + v[2] * 100 + v[3]

HasError(errs, kind) == \E k \in 1 .. Len(errs) : errs[k].kind = kind

\* C6: a checkNotNeededPackage call that returns, returns no error iff the
\* replacement resolves, the deprecated package's latest version resolves
\* and the record's version is strictly greater than it; an equal or lower
\* version yields the version-ordering error citing both versions.
C6_NoErrorIffReplacementIsNewer ==
  (lastCheck.made /\ ~lastCheck.result.threw) =>
    /\ lastCheck.result.errors = <<>>
         <=> /\ lastCheck.replacement = "ok"
             /\ lastCheck.typings.code = "ok"
             /\ VersionNumber(lastCheck.unneeded.version) > VersionNumber(lastCheck.typings.version)
    /\ ( /\ lastCheck.typings.code = "ok"
         /\ VersionNumber(lastCheck.unneeded.version) <= VersionNumber(lastCheck.typings.version) )
         => \E k \in 1 .. Len(lastCheck.result.errors) :
              lastCheck.result.errors[k] =
                [kind |-> "mustBeNewer",
                 subject |-> FormatSemver(lastCheck.unneeded.version) \o " "
                               \o FormatSemver(lastCheck.typings.version)]

C6_Witness ==
  /\ lastCheck.made
  /\ ~lastCheck.result.threw
  /\ lastCheck.replacement = "ok"
  /\ lastCheck.unneeded.version = <<2, 0, 0>>
  /\ lastCheck.typings = [code |-> "ok", version |-> <<2, 1, 0>>]
  /\ lastCheck.result.errors = << [kind |-> "mustBeNewer", subject |-> "2.0.0 2.1.0"] >>

DeletedsSet == "unset" \notin DOMAIN deleteds

DeletedDirs == { git.deletions[k].typesDirectoryName : k \in 1 .. Len(git.deletions) }

StillTyped == { p \in DeletedDirs : p \in allPackages.typings /\ p \in DOMAIN allPackages.notNeeded }

Deprecated == { p \in DeletedDirs : p \notin allPackages.typings /\ p \in DOMAIN allPackages.notNeeded }

\* C7: over the deduplicated directories of the deletions, a directory that
\* still has typings and is listed as deprecated produces one error, a
\* listed directory without typings is validated exactly once, an unlisted
\* directory produces nothing, and if any error was produced the result is
\* the errors alone.
C7_ConsistencyCheck ==
  DeletedsSet =>
    IF StillTyped # {}
    THEN /\ DOMAIN deleteds = {"errors"}
         /\ Len(deleteds.errors) = Cardinality(StillTyped)
         /\ { deleteds.errors[k].subject : k \in 1 .. Len(deleteds.errors) } = StillTyped
         /\ \A k \in 1 .. Len(deleteds.errors) : deleteds.errors[k].kind = "deleteAllFiles"
    ELSE /\ DOMAIN deleteds = {"notNeededs"}
         /\ Len(deleteds.notNeededs) = Cardinality(Deprecated)
         /\ { deleteds.notNeededs[k] : k \in 1 .. Len(deleteds.notNeededs) }
              = { NotNeededPackage(p, allPackages.notNeeded[p]) : p \in Deprecated }

C7_Witness ==
  /\ DeletedsSet
  /\ Len(git.deletions) = 3
  /\ allPackages.typings = {"bar"}
  /\ DOMAIN allPackages.notNeeded = {"foo", "bar"}
  /\ deleteds = [errors |-> << [kind |-> "deleteAllFiles", subject |-> "bar"] >>]

FatalReply ==
  /\ lastCheck.made
  /\ \/ lastCheck.replacement \notin {"ok", "E404", "ETARGET"}
     \/ lastCheck.typings.code \notin {"ok", "E404", "none"}

\* C8: a registry failure other than E404 (or, for the replacement lookup,
\* ETARGET) adds no entry to an error list: the check rejects and the run
\* fails, returning neither an error list nor an AffectedResult.
C8_OtherRegistryFailuresPropagate ==
  FatalReply =>
    /\ lastCheck.result.threw
    /\ lastCheck.result.errors = <<>>
    /\ pc = "done"
    /\ outcome = [kind |-> "thrown"]
    /\ "getAffectedPackages" \notin calls

C8_Witness ==
  /\ FatalReply
  /\ lastCheck.replacement = "E404"
  /\ lastCheck.typings.code = "ETARGET"
  /\ outcome = [kind |-> "thrown"]

\* C9: getNotNeededPackages and checkNotNeededPackage are invoked, and the
\* registry is looked up, only in runs whose diff has an entry whose file is
\* notNeededPackages.json.
C9_ChecksOnlyWhenManifestChanged ==
  ~ManifestChanged(diffs) =>
    /\ "getNotNeededPackages" \notin calls
    /\ "checkNotNeededPackage" \notin calls
    /\ lookups = 0
    /\ ~DeletedsSet
    /\ ~lastCheck.made

C9_Witness ==
  /\ pc = "done"
  /\ ~ManifestChanged(diffs)
  /\ GitSet
  /\ "deletions" \in DOMAIN git
  /\ Len(git.deletions) > 0
  /\ outcome = [kind |-> "affected"]
  /\ calls \cap Downstream = {"getAffectedPackages"}

RenameStep == pc = "gitChanges" /\ i <= Len(diffs) /\ i' = i + 1 /\ diffs[i].status = "R"

\* C10 as stated: a rename whose file maps and whose source does not adds no
\* error, leaves deletions unchanged and records only its file in
\* additions; a rename whose file does not map adds exactly one 'added'
\* error and records nothing.
C10_RenameWithUnmappedEnd ==
  [][ RenameStep =>
        /\ (Mapped(diffs[i].file) /\ ~Mapped(diffs[i].source)) =>
             /\ gc'.errors = gc.errors
             /\ gc'.deletions = gc.deletions
             /\ gc'.additions = MapSet(gc.additions, KeyOf(getDependencyFromFile(diffs[i].file)[1]),
                                       getDependencyFromFile(diffs[i].file)[1])
        /\ ~Mapped(diffs[i].file) =>
             /\ gc'.errors = Append(gc.errors, [kind |-> "added", subject |-> Join(diffs[i].file)])
             /\ gc'.deletions = gc.deletions
             /\ gc'.additions = gc.additions ]_vars

\* C10 amended: as stated for a rename whose file maps; a rename whose file
\* contains "types/" and does not map adds exactly one 'added' error and
\* records nothing; a rename whose file does not contain "types/" is
\* ignored whole, adding no error and recording nothing.
C10_RenameUnderTypesWithUnmappedEnd ==
  [][ RenameStep =>
        /\ (Mapped(diffs[i].file) /\ ~Mapped(diffs[i].source)) =>
             /\ gc'.errors = gc.errors
             /\ gc'.deletions = gc.deletions
             /\ gc'.additions = MapSet(gc.additions, KeyOf(getDependencyFromFile(diffs[i].file)[1]),
                                       getDependencyFromFile(diffs[i].file)[1])
        /\ (~Mapped(diffs[i].file) /\ TypesPattern(diffs[i].file)) =>
             /\ gc'.errors = Append(gc.errors, [kind |-> "added", subject |-> Join(diffs[i].file)])
             /\ gc'.deletions = gc.deletions
             /\ gc'.additions = gc.additions
        /\ ~TypesPattern(diffs[i].file) => gc' = gc ]_vars

C10_Witness ==
  /\ pc = "gitChanges"
  /\ i = 3
  /\ diffs[1] = [status |-> "R", source |-> <<"other", "unrelated.txt">>,
                 file |-> <<"types", "foo", "index.d.ts">>]
  /\ diffs[2] = [status |-> "R", source |-> <<"types", "foo", "v2", "index.d.ts">>,
                 file |-> <<"types", "README.md">>]
  /\ gc = [deletions |-> <<>>,
           additions |-> << [key |-> "foo/v*", value |-> [typesDirectoryName |-> "foo", version |-> <<>>]] >>,
           errors |-> << [kind |-> "added", subject |-> "types/README.md"] >>]

====
